---------------------------- MODULE Spec2Model ----------------------------
(***************************************************************************)
(* Bag-of-Words vectorization and ranking, as src/bow.py performs it with  *)
(* scikit-learn's CountVectorizer / TfidfVectorizer / cosine_similarity    *)
(* and pandas' Series.sort_values.                                         *)
(*                                                                         *)
(* A document is modelled by the token sequence the vectorizer's analyzer  *)
(* extracts from it, before case folding; a token is its sequence of code  *)
(* points.  Real-valued weights that need a logarithm are kept in fixed    *)
(* point, in thousandths (Milli); cosine scores are kept exactly, as a     *)
(* numerator over the square root of an integer.                           *)
(***************************************************************************)
EXTENDS Integers, Sequences, FiniteSets, TLC

VARIABLES
    pc,               \* position in the script
    error,            \* exception that stopped the script, "none" otherwise
    nltk_sentences,   \* corpus: sentences of the first paragraph
    count_small,      \* CountVectorizer fit on nltk_sentences
    sentences,        \* corpus: sentences of the whole book
    tfidf,            \* TfidfVectorizer()
    tfidf_sublinear,  \* TfidfVectorizer(sublinear_tf=True)
    s,                \* the text being transformed
    bow,              \* its vector (count_small / tfidf)
    bow_sl,           \* its vector under tfidf_sublinear
    word,             \* the word whose coefficient is printed
    shown,            \* <<natural, sublinear>> coefficients last printed
    shown_before,     \* the pair printed before that one
    newsgroups,       \* corpus: newsgroup messages
    quicksort_ties,   \* order the build's unstable quicksort leaves equal keys in
    count,            \* CountVectorizer fit on newsgroups
    corpus_bow,       \* count.transform(newsgroups.data)
    query,            \* the user's query text
    query_bow,        \* count.transform([query])
    similarity_matrix,\* cosine_similarity(corpus_bow, query_bow)
    top_k,            \* bound of the slice taken from the sorted series
    top_10            \* sorted series, sliced: sequence of [index, score]

vars == <<pc, error, nltk_sentences, count_small, sentences, tfidf,
          tfidf_sublinear, s, bow, bow_sl, word, shown, shown_before,
          newsgroups, quicksort_ties, count, corpus_bow, query, query_bow,
          similarity_matrix, top_k, top_10>>

countVars  == <<nltk_sentences, count_small>>
tfidfVars  == <<sentences, tfidf, tfidf_sublinear, bow_sl, word, shown, shown_before>>
searchVars == <<newsgroups, quicksort_ties, count, corpus_bow, query, query_bow,
                similarity_matrix, top_k, top_10>>

----------------------------------------------------------------------------
(* Bounds *)

MaxParSentences == 2
MaxParSentenceLen == 2
MaxSentences == 3
MaxSentenceLen == 1
MaxRepeat == 2
MaxMsgs == 2
MaxMsgLen == 1
MaxQueryLen == 2
MaxTopK == 2

(* The slice bound the script uses. *)
TopN == 10

----------------------------------------------------------------------------
(* Tokens, texts, corpora *)

(* "An", "an", "at" *)
Tokens == {<<65, 110>>, <<97, 110>>, <<97, 116>>}

Texts(maxLen) == UNION {[1..n -> Tokens] : n \in 0..maxLen}

Corpora(maxDocs, maxLen) == UNION {[1..d -> Texts(maxLen)] : d \in 0..maxDocs}

(* str.lower on one ASCII code point, and on a token *)
LowerChar(c) == IF c \in 65..90 THEN c + 32 ELSE c

Lower(t) == [i \in DOMAIN t |-> LowerChar(t[i])]

(* Python's < on strings: code point by code point, a proper prefix first *)
RECURSIVE LexLess(_, _)
LexLess(a, b) ==
    IF b = <<>> THEN FALSE
    ELSE IF a = <<>> THEN TRUE
    ELSE IF Head(a) # Head(b) THEN Head(a) < Head(b)
    ELSE LexLess(Tail(a), Tail(b))

(* the analyzer: preprocess (lowercase when asked), then tokenize *)
Analyze(doc, lowercase) ==
    [i \in DOMAIN doc |-> IF lowercase THEN Lower(doc[i]) ELSE doc[i]]

----------------------------------------------------------------------------
(* CountVectorizer *)

Unfitted == [fitted |-> FALSE, lowercase |-> TRUE, vocabulary_ |-> <<>>]

(* TfidfVectorizer(sublinear_tf=...) before fit *)
UnfittedTfidf(sublinear_tf) ==
    [fitted |-> FALSE, lowercase |-> TRUE, vocabulary_ |-> <<>>,
     sublinear_tf |-> sublinear_tf, idf_ |-> <<>>]

(* _count_vocab, fixed_vocab=False: a new feature gets index len(vocabulary) *)
RECURSIVE AddFeatures(_, _)
AddFeatures(vocabulary, features) ==
    IF features = <<>> THEN vocabulary
    ELSE LET f == Head(features)
             v == IF f \in DOMAIN vocabulary THEN vocabulary
                  ELSE vocabulary @@ (f :> Cardinality(DOMAIN vocabulary))
         IN  AddFeatures(v, Tail(features))

RECURSIVE CountVocab(_, _, _)
CountVocab(vocabulary, raw_documents, lowercase) ==
    IF raw_documents = <<>> THEN vocabulary
    ELSE CountVocab(AddFeatures(vocabulary, Analyze(Head(raw_documents), lowercase)),
                    Tail(raw_documents), lowercase)

(* _sort_features left out: indices stay in first-seen order *)
SortFeaturesSkipped(vocabulary) == vocabulary

(* _sort_features: sorted(vocabulary.items()), index = rank of the term *)
SortFeatures(vocabulary) ==
    [t \in DOMAIN vocabulary |->
        Cardinality({u \in DOMAIN vocabulary : LexLess(u, t)})]

(* fit accepts a corpus without any feature *)
EmptyVocabularyAccepted(vocabulary) == FALSE

(* "if not vocabulary: raise ValueError('empty vocabulary; ...')" *)
EmptyVocabulary(vocabulary) == DOMAIN vocabulary = {}

(* CountVectorizer(lowercase=lowercase).fit(raw_documents) *)
FitVocabulary(raw_documents, lowercase) ==
    SortFeatures(CountVocab(<<>>, raw_documents, lowercase))

Fitted(vocabulary, lowercase) ==
    [fitted |-> TRUE, lowercase |-> lowercase, vocabulary_ |-> vocabulary]

(* get_feature_names(): the terms by index; position j+1 holds index j *)
FeatureNames(vectorizer) ==
    [i \in 1..Cardinality(DOMAIN vectorizer.vocabulary_) |->
        CHOOSE t \in DOMAIN vectorizer.vocabulary_ : vectorizer.vocabulary_[t] = i - 1]

NFeatures(vectorizer) == Cardinality(DOMAIN vectorizer.vocabulary_)

(* transform counts each feature at most once (binary=True) *)
RECURSIVE CountFeaturesBinary(_, _, _)
CountFeaturesBinary(counter, vocabulary, features) ==
    IF features = <<>> THEN counter
    ELSE LET f == Head(features)
             c == IF f \in DOMAIN vocabulary
                  THEN [counter EXCEPT ![vocabulary[f] + 1] = 1]
                  ELSE counter
         IN  CountFeaturesBinary(c, vocabulary, Tail(features))

(* _count_vocab, fixed_vocab=True: counter[vocabulary[f]] += 1, KeyError ignored *)
RECURSIVE CountFeatures(_, _, _)
CountFeatures(counter, vocabulary, features) ==
    IF features = <<>> THEN counter
    ELSE LET f == Head(features)
             c == IF f \in DOMAIN vocabulary
                  THEN [counter EXCEPT ![vocabulary[f] + 1] = @ + 1]
                  ELSE counter
         IN  CountFeatures(c, vocabulary, Tail(features))

(* vectorizer.transform([doc]).toarray()[0]; position j+1 holds index j *)
CountTransform(vectorizer, doc) ==
    CountFeatures([j \in 1..NFeatures(vectorizer) |-> 0],
                  vectorizer.vocabulary_,
                  Analyze(doc, vectorizer.lowercase))

----------------------------------------------------------------------------
(* Raw count on the first paragraph (count_small) *)

(* the parts of the script a specification does not run stay as constructed *)
IdleCount ==
    /\ nltk_sentences = <<>>
    /\ count_small = Unfitted

IdleTfidf ==
    /\ sentences = <<>>
    /\ tfidf = UnfittedTfidf(FALSE)
    /\ tfidf_sublinear = UnfittedTfidf(TRUE)
    /\ bow_sl = <<>>
    /\ word = <<>>
    /\ shown = <<>>
    /\ shown_before = <<>>

IdleSearch ==
    /\ newsgroups = <<>>
    /\ quicksort_ties = <<>>
    /\ count = Unfitted
    /\ corpus_bow = <<>>
    /\ query = <<>>
    /\ query_bow = <<>>
    /\ similarity_matrix = <<>>
    /\ top_k = TopN
    /\ top_10 = <<>>

InitCount ==
    /\ pc = "start"
    /\ error = "none"
    /\ nltk_sentences \in Corpora(MaxParSentences, MaxParSentenceLen)
    /\ count_small = Unfitted
    /\ s = <<>>
    /\ bow = <<>>
    /\ IdleTfidf
    /\ IdleSearch

(* count_small = CountVectorizer(lowercase=...); count_small.fit(nltk_sentences) *)
FitCountSmall(lowercase) ==
    /\ pc \in {"start", "fitted", "transformed"}
    /\ LET vocabulary == FitVocabulary(nltk_sentences, lowercase)
       IN  IF EmptyVocabulary(vocabulary)
           THEN /\ pc' = "failed"
                /\ error' = "ValueError"
                /\ count_small' = [Unfitted EXCEPT !.lowercase = lowercase]
           ELSE /\ pc' = "fitted"
                /\ error' = "none"
                /\ count_small' = Fitted(vocabulary, lowercase)
    /\ UNCHANGED <<nltk_sentences, s, bow, tfidfVars, searchVars>>

(* s = nltk_sentences[0]; bow = count_small.transform([s]).toarray() *)
TransformCountSmall ==
    /\ pc \in {"fitted", "transformed"}
    /\ pc' = "transformed"
    /\ s' = nltk_sentences[1]
    /\ bow' = CountTransform(count_small, nltk_sentences[1])
    /\ UNCHANGED <<error, countVars, tfidfVars, searchVars>>

NextCount ==
    \/ \E lowercase \in BOOLEAN : FitCountSmall(lowercase)
    \/ TransformCountSmall

SpecCount == InitCount /\ [][NextCount]_vars

----------------------------------------------------------------------------
(* Claims on the vocabulary fit *)

(* the distinct tokens of a corpus, after the optional case folding *)
DistinctTerms(corpus, lowercase) ==
    UNION {{Analyze(corpus[d], lowercase)[i] : i \in DOMAIN corpus[d]} : d \in DOMAIN corpus}

SortedVocabulary(vectorizer, corpus) ==
    LET v == vectorizer.vocabulary_
    IN  /\ DOMAIN v = DistinctTerms(corpus, vectorizer.lowercase)
        /\ {v[t] : t \in DOMAIN v} = 0..(Cardinality(DOMAIN v) - 1)
        /\ \A t, u \in DOMAIN v : (v[t] = v[u]) => (t = u)
        /\ \A t, u \in DOMAIN v : (v[t] < v[u]) <=> LexLess(t, u)

(* C1: a fit gives the distinct (optionally case-folded) tokens of the corpus  *)
(* the indices 0..N-1 in lexicographic order, one index per term, and a second *)
(* fit of the same corpus with the same lowercase flag gives the same indices. *)
C1_VocabularyFit ==
    /\ [](count_small.fitted => SortedVocabulary(count_small, nltk_sentences))
    /\ [][(count_small.fitted /\ count_small'.fitted
            /\ count_small'.lowercase = count_small.lowercase)
          => count_small'.vocabulary_ = count_small.vocabulary_]_vars

(* a case-folded fit of two terms whose first-seen order is not the sorted one *)
C1_Witness ==
    /\ count_small.fitted
    /\ count_small.lowercase
    /\ NFeatures(count_small) = 2
    /\ DistinctTerms(nltk_sentences, FALSE) # DOMAIN count_small.vocabulary_
    /\ CountVocab(<<>>, nltk_sentences, TRUE) # count_small.vocabulary_

NoToken(corpus) == \A d \in DOMAIN corpus : corpus[d] = <<>>

(* C8 as stated: fit fails only on a corpus of zero documents; a corpus of   *)
(* empty documents is accepted with N = 0 and every transform is then empty. *)
C8_Original ==
    /\ (error # "none") => (Len(nltk_sentences) = 0)
    /\ (pc # "start" /\ Len(nltk_sentences) > 0) =>
          /\ count_small.fitted
          /\ NoToken(nltk_sentences) => NFeatures(count_small) = 0
    /\ (pc = "transformed" /\ NFeatures(count_small) = 0) => (bow = <<>>)

(* C8 amended: fit fails (ValueError, empty vocabulary) exactly when the corpus *)
(* holds no token at all, be it zero documents or only empty documents; a      *)
(* fitted vocabulary has N >= 1, and the transform of an empty document is the *)
(* all-zero vector of dimension N.                                             *)
C8_FitFailsWithoutToken ==
    /\ (pc = "failed") <=> (error = "ValueError")
    /\ (pc # "start") => ((error = "ValueError") <=> NoToken(nltk_sentences))
    /\ (pc # "start") => (count_small.fitted <=> ~NoToken(nltk_sentences))
    /\ count_small.fitted => NFeatures(count_small) >= 1
    /\ (pc = "transformed") =>
          /\ Len(bow) = NFeatures(count_small)
          /\ (s = <<>>) => (\A j \in DOMAIN bow : bow[j] = 0)

(* a corpus of empty documents was refused *)
C8_Witness ==
    /\ pc = "failed"
    /\ Len(nltk_sentences) = MaxParSentences
    /\ NoToken(nltk_sentences)

----------------------------------------------------------------------------
(* TfidfVectorizer: fixed-point arithmetic, in thousandths *)

Milli(x) == x * 1000

(* 1000 * ln(n), rounded, for n = 1, 2, ... *)
LnTable == <<0, 693, 1099, 1386, 1609, 1792, 1946, 2079, 2197, 2303, 2398, 2485>>

LnMilli(n) == LnTable[n]

(* floor of the square root *)
RECURSIVE SqrtBetween(_, _, _)
SqrtBetween(n, lo, hi) ==
    IF lo >= hi THEN lo
    ELSE LET mid == (lo + hi + 1) \div 2
         IN  IF mid * mid <= n THEN SqrtBetween(n, mid, hi)
             ELSE SqrtBetween(n, lo, mid - 1)

ISqrt(n) == SqrtBetween(n, 0, 46340)

RECURSIVE SumSeq(_)
SumSeq(v) == IF v = <<>> THEN 0 ELSE Head(v) + SumSeq(Tail(v))

(* _document_frequency(X): rows with a non-zero entry in column j *)
DocumentFrequency(X, j) == Cardinality({d \in DOMAIN X : X[d][j] > 0})

(* the closing "+ 1" of the formula left out *)
IdfWithoutOne(n_samples, df) == LnMilli(n_samples + 1) - LnMilli(df + 1)

(* smooth_idf: idf = log((1 + n_samples) / (1 + df)) + 1 *)
Idf(n_samples, df) == LnMilli(n_samples + 1) - LnMilli(df + 1) + Milli(1)

(* TfidfVectorizer(sublinear_tf=...).fit(raw_documents), once the vocabulary is known *)
FittedTfidf(vocabulary, raw_documents, sublinear_tf) ==
    LET cv == Fitted(vocabulary, TRUE)
        X  == [d \in DOMAIN raw_documents |-> CountTransform(cv, raw_documents[d])]
    IN  [fitted |-> TRUE, lowercase |-> TRUE, vocabulary_ |-> vocabulary,
         sublinear_tf |-> sublinear_tf,
         idf_ |-> [j \in 1..Cardinality(DOMAIN vocabulary) |->
                     Idf(Len(raw_documents), DocumentFrequency(X, j))]]

(* term frequency of a stored (non-zero) count: the count, or 1 + log(count) *)
LinearTf(c) == IF c = 0 THEN 0 ELSE Milli(c)

SublinearTf(c) == IF c = 0 THEN 0 ELSE LnMilli(c) + Milli(1)

Tf(vectorizer, c) == IF vectorizer.sublinear_tf THEN SublinearTf(c) ELSE LinearTf(c)

(* X * idf_diag *)
TfIdfWeights(vectorizer, counts) ==
    [j \in DOMAIN counts |-> (Tf(vectorizer, counts[j]) * vectorizer.idf_[j]) \div 1000]

(* normalize(X, norm='l2'): each row divided by its norm, a zero norm taken as 1 *)
NormalizeL2(w) ==
    LET norm  == ISqrt(SumSeq([j \in DOMAIN w |-> w[j] * w[j]]))
        norms == IF norm = 0 THEN Milli(1) ELSE norm
    IN  [j \in DOMAIN w |-> Milli(w[j]) \div norms]

(* vectorizer.transform([doc]).toarray()[0], norm='l2' being the default *)
TfidfTransform(vectorizer, doc) ==
    NormalizeL2(TfIdfWeights(vectorizer, CountTransform(vectorizer, doc)))

----------------------------------------------------------------------------
(* TF-IDF on the book (tfidf, tfidf_sublinear) *)

InitTfidf ==
    /\ pc = "start"
    /\ error = "none"
    /\ sentences \in Corpora(MaxSentences, MaxSentenceLen)
    /\ tfidf = UnfittedTfidf(FALSE)
    /\ tfidf_sublinear = UnfittedTfidf(TRUE)
    /\ s = <<>>
    /\ bow = <<>>
    /\ bow_sl = <<>>
    /\ word = <<>>
    /\ shown = <<>>
    /\ shown_before = <<>>
    /\ IdleCount
    /\ IdleSearch

(* tfidf = TfidfVectorizer(); tfidf.fit(sentences) *)
FitTfidf ==
    /\ pc = "start"
    /\ LET vocabulary == FitVocabulary(sentences, TRUE)
       IN  IF EmptyVocabulary(vocabulary)
           THEN /\ pc' = "failed"
                /\ error' = "ValueError"
                /\ tfidf' = tfidf
           ELSE /\ pc' = "tfidf"
                /\ error' = error
                /\ tfidf' = FittedTfidf(vocabulary, sentences, FALSE)
    /\ UNCHANGED <<sentences, tfidf_sublinear, s, bow, bow_sl, word, shown,
                   shown_before, countVars, searchVars>>

(* s = sentences[10]; bow = tfidf.transform([s]).toarray(); the sentence at   *)
(* the fixed index is the first one here, the corpora being of every order    *)
TransformTfidf ==
    /\ pc = "tfidf"
    /\ pc' = "bow"
    /\ s' = sentences[1]
    /\ bow' = TfidfTransform(tfidf, sentences[1])
    /\ UNCHANGED <<error, sentences, tfidf, tfidf_sublinear, bow_sl, word, shown,
                   shown_before, countVars, searchVars>>

(* tfidf_sublinear = TfidfVectorizer(sublinear_tf=True); tfidf_sublinear.fit(sentences) *)
FitTfidfSublinear ==
    /\ pc = "bow"
    /\ pc' = "tfidf_sublinear"
    /\ tfidf_sublinear' =
          FittedTfidf(FitVocabulary(sentences, TRUE), sentences, TRUE)
    /\ UNCHANGED <<error, sentences, tfidf, s, bow, bow_sl, word, shown,
                   shown_before, countVars, searchVars>>

(* s = sentences[10]; bow_sl = tfidf_sublinear.transform([s]).toarray() *)
TransformSublinear ==
    /\ pc = "tfidf_sublinear"
    /\ pc' = "bow_sl"
    /\ bow_sl' = TfidfTransform(tfidf_sublinear, s)
    /\ UNCHANGED <<error, sentences, tfidf, tfidf_sublinear, s, bow, word, shown,
                   shown_before, countVars, searchVars>>

(* word = 'yet'; index = words.index(word), words being tfidf's feature names; *)
(* bow = tfidf.transform([s]); print bow[0][index] and bow_sl[0][index]         *)
CompareWord(w) ==
    /\ pc = "bow_sl"
    /\ word' = w
    /\ IF \E i \in DOMAIN FeatureNames(tfidf) : FeatureNames(tfidf)[i] = w
       THEN LET words == FeatureNames(tfidf)
                index == (CHOOSE i \in DOMAIN words : words[i] = w) - 1
                b     == TfidfTransform(tfidf, s)
            IN  /\ pc' = "compared"
                /\ error' = error
                /\ bow' = b
                /\ shown' = <<b[index + 1], bow_sl[index + 1]>>
       ELSE /\ pc' = "failed"
            /\ error' = "ValueError"
            /\ UNCHANGED <<bow, shown>>
    /\ UNCHANGED <<sentences, tfidf, tfidf_sublinear, s, bow_sl, shown_before,
                   countVars, searchVars>>

(* s = s + ' '.join(n * [word]); both transforms again; print both coefficients *)
RepeatWord(n) ==
    /\ pc = "compared"
    /\ LET text  == s \o [i \in 1..n |-> word]
           words == FeatureNames(tfidf)
           index == (CHOOSE i \in DOMAIN words : words[i] = word) - 1
           b     == TfidfTransform(tfidf, text)
           b_sl  == TfidfTransform(tfidf_sublinear, text)
       IN  /\ pc' = "repeated"
           /\ s' = text
           /\ bow' = b
           /\ bow_sl' = b_sl
           /\ shown_before' = shown
           /\ shown' = <<b[index + 1], b_sl[index + 1]>>
    /\ UNCHANGED <<error, sentences, tfidf, tfidf_sublinear, word, countVars, searchVars>>

NextTfidf ==
    \/ FitTfidf
    \/ TransformTfidf
    \/ FitTfidfSublinear
    \/ TransformSublinear
    \/ \E w \in {Lower(t) : t \in Tokens} : CompareWord(w)
    \/ \E n \in 1..MaxRepeat : RepeatWord(n)

SpecTfidf == InitTfidf /\ [][NextTfidf]_vars

----------------------------------------------------------------------------
(* Claims on TF-IDF *)

(* number of the documents of the corpus that hold the term, case folded *)
DocsWith(corpus, term) ==
    Cardinality({d \in DOMAIN corpus : \E i \in DOMAIN corpus[d] : Lower(corpus[d][i]) = term})

(* occurrences of the term in a text, case folded *)
Occurrences(text, term) ==
    Cardinality({i \in DOMAIN text : Lower(text[i]) = term})

TfidfApplied == pc \in {"bow", "tfidf_sublinear", "bow_sl", "compared", "repeated"}

(* C4 as stated: every coefficient of a transformed document is exactly        *)
(* TF(term, doc) * IDF(term), IDF = ln((1 + D) / (1 + DF)) + 1, TF the raw count, *)
(* and the vector is not rescaled any further.                                 *)
C4_Original ==
    TfidfApplied =>
        \A t \in DOMAIN tfidf.vocabulary_ :
            bow[tfidf.vocabulary_[t] + 1] =
                (Milli(Occurrences(s, t))
                   * (LnMilli(1 + Len(sentences)) - LnMilli(1 + DocsWith(sentences, t))
                        + Milli(1))) \div 1000

(* C9: 0 < IDF(term) <= ln(1 + D) + 1 for every term of a fitted transformer;  *)
(* IDF is least (1) for a term of every document, never above the value of a   *)
(* term of no document, and never higher for the term of higher document       *)
(* frequency.                                                                  *)
C9_IdfBounds ==
    tfidf.fitted =>
        LET v      == tfidf.vocabulary_
            D      == Len(sentences)
            idf(t) == tfidf.idf_[v[t] + 1]
            df(t)  == DocsWith(sentences, t)
        IN  /\ \A t \in DOMAIN v :
                  /\ 0 < idf(t)
                  /\ idf(t) <= LnMilli(1 + D) + Milli(1)
                  /\ Milli(1) <= idf(t)
                  /\ (df(t) = D) => (idf(t) = Milli(1))
                  /\ (df(t) < D) => (idf(t) > Milli(1))
            /\ \A t, u \in DOMAIN v :
                  /\ (df(t) > df(u)) => (idf(t) <= idf(u))
                  /\ (df(t) = df(u)) => (idf(t) = idf(u))

(* two terms of different document frequency *)
C9_Witness ==
    /\ tfidf.fitted
    /\ Len(sentences) = MaxSentences
    /\ \E t, u \in DOMAIN tfidf.vocabulary_ :
          /\ DocsWith(sentences, t) > DocsWith(sentences, u)
          /\ tfidf.idf_[tfidf.vocabulary_[t] + 1] < tfidf.idf_[tfidf.vocabulary_[u] + 1]

(* the two TF-IDF vectorizers, fit on the same sentences, share tfidf's word   *)
(* list, and a fitted IDF table is never changed by a transform               *)
SharedWordList ==
    tfidf_sublinear.fitted =>
        /\ tfidf_sublinear.vocabulary_ = tfidf.vocabulary_
        /\ SortedVocabulary(tfidf, sentences)

IdfTableFrozen ==
    [][/\ tfidf.fitted => tfidf' = tfidf
       /\ tfidf_sublinear.fitted => tfidf_sublinear' = tfidf_sublinear]_vars

(* C10 as stated: sublinear TF is 1 + ln(c) for c > 0 and 0 for c = 0, it is   *)
(* below the linear TF for c > 1, and repeating a word of a document raises    *)
(* its sublinear coefficient by a smaller factor than its linear coefficient.  *)
C10_Original ==
    /\ SublinearTf(0) = 0
    /\ \A c \in 1..(MaxSentenceLen + MaxRepeat) :
          /\ SublinearTf(c) = Milli(1) + LnMilli(c)
          /\ (c > 1) => (SublinearTf(c) < LinearTf(c))
    /\ (pc = "repeated" /\ shown_before[1] > 0 /\ shown_before[2] > 0) =>
          (shown[2] * shown_before[1] < shown[1] * shown_before[2])

----------------------------------------------------------------------------
(* cosine_similarity and Series.sort_values *)

RECURSIVE Dot(_, _)
Dot(a, b) == IF a = <<>> THEN 0 ELSE Head(a) * Head(b) + Dot(Tail(a), Tail(b))

(* the squared norm used as it is: a zero row divides by zero *)
RowNorm2Unguarded(v) == Dot(v, v)

(* normalize(X): squared row norm, a zero norm taken as 1 *)
RowNorm2(v) == IF Dot(v, v) = 0 THEN 1 ELSE Dot(v, v)

(* dot product of the two normalized rows: the score is num / sqrt(den2) *)
Cosine(a, b) == [num |-> Dot(a, b), den2 |-> RowNorm2(a) * RowNorm2(b)]

(* cosine_similarity(X, Y)[:, 0], Y holding one row *)
CosineSimilarity(X, y) == [d \in DOMAIN X |-> Cosine(X[d], y)]

(* a < b on two scores with non-negative numerators *)
ScoreLess(a, b) == a.num * a.num * b.den2 < b.num * b.num * a.den2

PermutationsOf(n) ==
    {p \in [1..n -> 1..n] : \A i, j \in 1..n : (p[i] = p[j]) => (i = j)}

(* ascending order, equal scores as the sort leaves them *)
SortValuesAscending(series, ties) ==
    LET D == Len(series)
        before(i, j) == \/ ScoreLess(series[i], series[j])
                        \/ /\ ~ScoreLess(series[j], series[i])
                           /\ ties[i] < ties[j]
    IN  [r \in 1..D |->
            LET i == CHOOSE i \in 1..D :
                        Cardinality({j \in 1..D : before(j, i)}) = r - 1
            IN  [index |-> i - 1, score |-> series[i]]]

(* sort_values(ascending=False), kind='quicksort': descending scores; the order *)
(* of equal scores is whatever the unstable sort leaves, here `ties`           *)
SortValuesDescending(series, ties) ==
    LET D == Len(series)
        before(i, j) == \/ ScoreLess(series[j], series[i])
                        \/ /\ ~ScoreLess(series[i], series[j])
                           /\ ties[i] < ties[j]
    IN  [r \in 1..D |->
            LET i == CHOOSE i \in 1..D :
                        Cardinality({j \in 1..D : before(j, i)}) = r - 1
            IN  [index |-> i - 1, score |-> series[i]]]

(* the slice taken one entry short *)
SliceShort(seq, k) ==
    LET stop == IF k < 0 THEN Len(seq) + k ELSE k - 1
    IN  SubSeq(seq, 1, IF stop < 0 THEN 0 ELSE IF stop > Len(seq) THEN Len(seq) ELSE stop)

(* seq[:k]: a negative k counts from the end, the bounds are clipped *)
Slice(seq, k) ==
    LET stop == IF k < 0 THEN Len(seq) + k ELSE k
    IN  SubSeq(seq, 1, IF stop < 0 THEN 0 ELSE IF stop > Len(seq) THEN Len(seq) ELSE stop)

----------------------------------------------------------------------------
(* Search engine on the newsgroup messages (count) *)

(* "an", "at": the messages are drawn from lower-case tokens, the queries from all *)
MsgTokens == {Lower(t) : t \in Tokens}

Messages == UNION {[1..n -> MsgTokens] : n \in 0..MaxMsgLen}

TopKs == (-1..MaxTopK) \cup {TopN}

InitSearch ==
    /\ pc = "start"
    /\ error = "none"
    /\ newsgroups \in UNION {[1..d -> Messages] : d \in 0..MaxMsgs}
    /\ quicksort_ties \in PermutationsOf(Len(newsgroups))
    /\ count = Unfitted
    /\ corpus_bow = <<>>
    /\ query = <<>>
    /\ query_bow = <<>>
    /\ similarity_matrix = <<>>
    /\ top_k = TopN
    /\ top_10 = <<>>
    /\ s = <<>>
    /\ bow = <<>>
    /\ IdleCount
    /\ IdleTfidf

(* count = CountVectorizer(); count.fit(newsgroups.data) *)
FitCount ==
    /\ pc = "start"
    /\ LET vocabulary == FitVocabulary(newsgroups, TRUE)
       IN  IF EmptyVocabulary(vocabulary)
           THEN /\ pc' = "failed"
                /\ error' = "ValueError"
                /\ count' = count
           ELSE /\ pc' = "fitted"
                /\ error' = error
                /\ count' = Fitted(vocabulary, TRUE)
    /\ UNCHANGED <<newsgroups, quicksort_ties, corpus_bow, query, query_bow,
                   similarity_matrix, top_k, top_10, s, bow, countVars, tfidfVars>>

(* corpus_bow = count.transform(newsgroups.data) *)
TransformCorpus ==
    /\ pc = "fitted"
    /\ pc' = "corpus_bow"
    /\ corpus_bow' = [d \in DOMAIN newsgroups |-> CountTransform(count, newsgroups[d])]
    /\ UNCHANGED <<error, newsgroups, quicksort_ties, count, query, query_bow,
                   similarity_matrix, top_k, top_10, s, bow, countVars, tfidfVars>>

(* the query vectorized by fit_transform: the vectorizer is fit again, on the query *)
QueryFitTransform(q) ==
    /\ pc = "corpus_bow"
    /\ pc' = "query_bow"
    /\ query' = q
    /\ count' = Fitted(FitVocabulary(<<q>>, TRUE), TRUE)
    /\ query_bow' = CountTransform(count', q)
    /\ UNCHANGED <<error, newsgroups, quicksort_ties, corpus_bow,
                   similarity_matrix, top_k, top_10, s, bow, countVars, tfidfVars>>

(* query = input(...); query_bow = count.transform([query]) *)
QueryTransform(q) ==
    /\ pc = "corpus_bow"
    /\ pc' = "query_bow"
    /\ query' = q
    /\ query_bow' = CountTransform(count, q)
    /\ UNCHANGED <<error, newsgroups, quicksort_ties, count, corpus_bow,
                   similarity_matrix, top_k, top_10, s, bow, countVars, tfidfVars>>

(* similarity_matrix = cosine_similarity(corpus_bow, query_bow);               *)
(* rows of different widths raise ValueError                                   *)
Similarity ==
    /\ pc = "query_bow"
    /\ IF \A d \in DOMAIN corpus_bow : Len(corpus_bow[d]) = Len(query_bow)
       THEN /\ pc' = "similarities"
            /\ error' = error
            /\ similarity_matrix' = CosineSimilarity(corpus_bow, query_bow)
       ELSE /\ pc' = "failed"
            /\ error' = "ValueError"
            /\ similarity_matrix' = similarity_matrix
    /\ UNCHANGED <<newsgroups, quicksort_ties, count, corpus_bow, query, query_bow,
                   top_k, top_10, s, bow, countVars, tfidfVars>>

(* similarities = pd.Series(similarity_matrix[:, 0]);                          *)
(* top_10 = similarities.sort_values(ascending=False)[:10], for any slice bound *)
Rank(k) ==
    /\ pc \in {"similarities", "ranked"}
    /\ pc' = "ranked"
    /\ top_k' = k
    /\ top_10' = Slice(SortValuesDescending(similarity_matrix, quicksort_ties), k)
    /\ UNCHANGED <<error, newsgroups, quicksort_ties, count, corpus_bow, query,
                   query_bow, similarity_matrix, s, bow, countVars, tfidfVars>>

NextSearch ==
    \/ FitCount
    \/ TransformCorpus
    \/ \E q \in Texts(MaxQueryLen) : QueryTransform(q)
    \/ Similarity
    \/ \E k \in TopKs : Rank(k)

SpecSearch == InitSearch /\ [][NextSearch]_vars

----------------------------------------------------------------------------
(* Claims on the count transform, the similarity and the ranking *)

Transformed == pc \in {"query_bow", "similarities", "ranked"}

Scored == pc \in {"similarities", "ranked"}

InVocabulary(text, vectorizer) ==
    {i \in DOMAIN text : Lower(text[i]) \in DOMAIN vectorizer.vocabulary_}

CountsOf(vector, text, vectorizer) ==
    /\ Len(vector) = NFeatures(vectorizer)
    /\ \A t \in DOMAIN vectorizer.vocabulary_ :
          vector[vectorizer.vocabulary_[t] + 1] = Occurrences(text, t)
    /\ SumSeq(vector) = Cardinality(InVocabulary(text, vectorizer))

(* C2: the count transform gives each vocabulary index the number of          *)
(* occurrences of its term in the document and drops the tokens that are not  *)
(* in the vocabulary, so the weights sum to the number of in-vocabulary tokens. *)
C2_CountTransform ==
    /\ Transformed => CountsOf(query_bow, query, count)
    /\ (Transformed \/ pc = "corpus_bow") =>
          \A d \in DOMAIN newsgroups : CountsOf(corpus_bow[d], newsgroups[d], count)

(* a query of one counted token and one token outside the vocabulary *)
C2_Witness ==
    /\ pc = "query_bow"
    /\ Len(query) = MaxQueryLen
    /\ SumSeq(query_bow) = 1
    /\ Cardinality(InVocabulary(query, count)) < Len(query)

(* C3: once fit, a vectorizer (vocabulary, IDF table) is left as it is by every *)
(* transform and rank, and the query vector and the corpus matrix that are     *)
(* compared come from the one fitted vocabulary, with its dimension N.         *)
C3_FrozenAfterFit ==
    /\ [][/\ count.fitted => count' = count
          /\ tfidf.fitted => tfidf' = tfidf
          /\ tfidf_sublinear.fitted => tfidf_sublinear' = tfidf_sublinear]_vars
    /\ [](Scored =>
            /\ error = "none"
            /\ Len(query_bow) = NFeatures(count)
            /\ query_bow = CountTransform(count, query)
            /\ Len(similarity_matrix) = Len(newsgroups)
            /\ \A d \in DOMAIN newsgroups :
                  /\ Len(corpus_bow[d]) = NFeatures(count)
                  /\ corpus_bow[d] = CountTransform(count, newsgroups[d]))

(* a query ranked against a corpus of two terms *)
C3_Witness ==
    /\ pc = "ranked"
    /\ NFeatures(count) = 2
    /\ Len(query) > 0
    /\ Cardinality(DOMAIN count.vocabulary_ \cap {Lower(query[i]) : i \in DOMAIN query}) = 1

Descending(ranking) ==
    \A r \in 1..(Len(ranking) - 1) : ~ScoreLess(ranking[r].score, ranking[r + 1].score)

Ranks(ranking) ==
    /\ \A r \in DOMAIN ranking :
          /\ ranking[r].index \in 0..(Len(similarity_matrix) - 1)
          /\ ranking[r].score = similarity_matrix[ranking[r].index + 1]
    /\ \A r, q \in DOMAIN ranking : (ranking[r].index = ranking[q].index) => (r = q)
    /\ \A d \in DOMAIN similarity_matrix :
          (\A r \in DOMAIN ranking : ranking[r].index # d - 1) =>
              \A r \in DOMAIN ranking : ~ScoreLess(ranking[r].score, similarity_matrix[d])

TiesByIndex(ranking) ==
    \A r \in 1..(Len(ranking) - 1) :
        (~ScoreLess(ranking[r + 1].score, ranking[r].score)) =>
            (ranking[r].index < ranking[r + 1].index)

SamePrefix(a, b) ==
    \A r \in DOMAIN a \cap DOMAIN b : a[r] = b[r]

(* C5 as stated: the ranking holds every (document index, score) pair by      *)
(* descending score, equal scores by ascending document index.                *)
C5_Original ==
    (pc = "ranked") =>
        /\ Ranks(top_10)
        /\ Descending(top_10)
        /\ TiesByIndex(top_10)
        /\ (top_k >= Len(newsgroups)) => (Len(top_10) = Len(newsgroups))

(* C5 amended: the ranking holds every (document index, score) pair by        *)
(* descending score, and ranking again on the same inputs gives the same order; *)
(* the order of equal scores is the one the sort leaves, not the index order. *)
C5_DescendingRepeatable ==
    /\ []((pc = "ranked") =>
            /\ Ranks(top_10)
            /\ Descending(top_10)
            /\ (top_k >= Len(newsgroups)) => (Len(top_10) = Len(newsgroups)))
    /\ [][(pc = "ranked" /\ pc' = "ranked") => SamePrefix(top_10, top_10')]_vars

(* the full ranking, in which the sort moved a later document to the front *)
C5_Witness ==
    /\ pc = "ranked"
    /\ top_k = TopN
    /\ Len(top_10) = MaxMsgs
    /\ top_10[1].index > 0
    /\ ScoreLess(top_10[Len(top_10)].score, top_10[1].score)

IsZero(v) == \A j \in DOMAIN v : v[j] = 0

(* C6: every score is defined and lies in [0, 1]; it is 1 for a non-zero      *)
(* vector against itself and 0 when the document or the query has zero        *)
(* magnitude, which is no error.                                              *)
C6_CosineBounds ==
    Scored =>
        /\ error = "none"
        /\ \A d \in DOMAIN similarity_matrix :
              LET sc == similarity_matrix[d]
              IN  /\ sc.den2 > 0
                  /\ sc.num >= 0
                  /\ sc.num * sc.num <= sc.den2
                  /\ (IsZero(corpus_bow[d]) \/ IsZero(query_bow)) => (sc.num = 0)
                  /\ (corpus_bow[d] = query_bow /\ ~IsZero(query_bow)) =>
                        (sc.num * sc.num = sc.den2)

(* a query without any term of the vocabulary, scored against the corpus *)
C6_Witness ==
    /\ pc = "similarities"
    /\ Len(query) > 0
    /\ IsZero(query_bow)
    /\ \E d \in DOMAIN corpus_bow : ~IsZero(corpus_bow[d])
    /\ \A d \in DOMAIN similarity_matrix : similarity_matrix[d].num = 0

Min(a, b) == IF a < b THEN a ELSE b

=============================================================================
